---------------------------- MODULE Spec2Model ----------------------------
(***************************************************************************)
(* A model of the bids processor: the XML-to-project extraction            *)
(* (cleanProjectData), the identifier extraction (extractProjectId), the   *)
(* stage canonicalization (mapProjectStage) and the lead/project           *)
(* reconciliation (matchLeadsWithProjects), in the Map-based form of       *)
(* src/unnamed/part_002 and the Set/find-based form of src/index.js; the   *)
(* paginated CRM fetch (fetchAllPipedriveLeads) and the POST /process      *)
(* handler in its four versions.                                           *)
(*                                                                         *)
(* JavaScript values are records tagged by "kind".  A string carries its   *)
(* text; an array its items; an object a function from its own property    *)
(* names to values.  A call that throws yields Raised.                     *)
(***************************************************************************)
EXTENDS Integers, Sequences, FiniteSets, TLC

VARIABLES
  pipedriveLeads,      \* reconcile: the lead list handed to matchLeadsWithProjects
  allRailwayProjects,  \* reconcile: the project list handed to it
  matches,             \* result of the Map-based matchLeadsWithProjects, or NotCalled
  matchesIdx,          \* result of the Set/find-based one of src/index.js, or NotCalled
  parsed,              \* extract: the tree handed to cleanProjectData
  cleaned,             \* result of cleanProjectData, or NotCalled
  urlArg,              \* the argument of a call of extractProjectId
  idResult,            \* its result, or NotCalled
  stageArg,            \* the argument of a call of mapProjectStage
  stageResult,         \* its result, or NotCalled
  pages,               \* fetch: what the CRM answers to a request, by start
  start,               \* fetch: the local start
  allLeads,            \* fetch: the local allLeads
  fetchPc,             \* fetch: "idle", "loop", "returned" or "thrown"
  version,             \* /process: the source file of the handler
  reqFile,             \* /process: whether req.file is set
  archive,             \* /process: the entries of the uploaded archive
  corruptAt,           \* /process: entries emitted before the archive
                       \*   stream errors, or -1 when it does not
  emitted,             \* /process: the number of 'entry' events so far
  tasks,               \* /process: the state of each emitted entry
  xmlFiles,            \* /process: the local xmlFiles
  pc,                  \* /process: the handler's position
  responses            \* /process: the responses sent on res, in order

reconcileVars == <<pipedriveLeads, allRailwayProjects, matches, matchesIdx>>
extractVars == <<parsed, cleaned>>
identifierVars == <<urlArg, idResult>>
stageVars == <<stageArg, stageResult>>
fetchVars == <<pages, start, allLeads, fetchPc>>
processVars ==
  <<version, reqFile, archive, corruptAt, emitted, tasks, xmlFiles, pc, responses>>

vars ==
  <<reconcileVars, extractVars, identifierVars, stageVars, fetchVars, processVars>>

---------------------------------------------------------------------------
(* Bounds of the model.                                                    *)
MaxLeads == 2
MaxProjects == 2
MaxCompanies == 3
MaxUrlLen == 4
MaxStart == 2
MaxEntries == 2

---------------------------------------------------------------------------
(* JavaScript values.                                                      *)
Undefined == [kind |-> "undefined"]
Null == [kind |-> "null"]
Str(s) == [kind |-> "string", val |-> s]
Num(n) == [kind |-> "number", num |-> n]
Bool(b) == [kind |-> "boolean", b |-> b]
Arr(s) == [kind |-> "array", items |-> s]
Obj(f) == [kind |-> "object", fields |-> f]
\* The outcome of a call that throws (here always a TypeError).
Raised == [kind |-> "throw"]
\* The result variable of a function that has not been called yet.
NotCalled == [kind |-> "notcalled"]

IsNullish(v) == v.kind \in {"undefined", "null"}

\* if (v) / !v: undefined, null, "", 0 and false are falsy.
Truthy(v) ==
  CASE v.kind \in {"undefined", "null"} -> FALSE
    [] v.kind = "string" -> v.val # ""
    [] v.kind = "number" -> v.num # 0
    [] v.kind = "boolean" -> v.b
    [] OTHER -> TRUE

\* v.name: a TypeError on undefined and null, the own property of an
\* object, and undefined on anything else (no modelled name is a method or
\* a built-in property of a string, a number or an array).
Prop(v, name) ==
  CASE v.kind = "throw" -> Raised
    [] IsNullish(v) -> Raised
    [] v.kind = "object" ->
         IF name \in DOMAIN v.fields THEN v.fields[name] ELSE Undefined
    [] OTHER -> Undefined

\* v?.name
OptProp(v, name) ==
  IF v.kind # "throw" /\ IsNullish(v) THEN Undefined ELSE Prop(v, name)

\* v[0]: the first item of an array, the first character of a string,
\* a TypeError on undefined and null, undefined otherwise.
At0(v) ==
  CASE v.kind = "throw" -> Raised
    [] IsNullish(v) -> Raised
    [] v.kind = "array" -> IF Len(v.items) > 0 THEN v.items[1] ELSE Undefined
    [] v.kind = "string" ->
         IF Len(v.val) > 0 THEN Str(SubSeq(v.val, 1, 1)) ELSE Undefined
    [] OTHER -> Undefined

\* v?.[0]
OptAt0(v) ==
  IF v.kind # "throw" /\ IsNullish(v) THEN Undefined ELSE At0(v)

---------------------------------------------------------------------------
(* extractProjectId: url.match(/\/(\d+)\/\d+\/?/), first capture group.    *)
Digits == {"0", "1", "2", "3", "4", "5", "6", "7", "8", "9"}

\* The character of s at 1-based position i, "" beyond its end.
CharAt(s, i) == IF i >= 1 /\ i <= Len(s) THEN SubSeq(s, i, i) ELSE ""

\* The last position of the maximal run of digits of s that starts at i
\* (i - 1 when s has no digit at i): what a greedy \d+ consumes.
RECURSIVE DigitRunEnd(_, _)
DigitRunEnd(s, i) ==
  IF CharAt(s, i) \in Digits THEN DigitRunEnd(s, i + 1) ELSE i - 1

MatchesAt_noSecondGroup(s, i) ==
  LET e == DigitRunEnd(s, i + 1) IN
  /\ CharAt(s, i) = "/"
  /\ e >= i + 1
  /\ CharAt(s, e + 1) = "/"

\* Whether the pattern matches with its first "/" at position i.  After a
\* greedy \d+ the next character is no digit, so no shorter run can be
\* followed by "/": backtracking finds nothing more.
MatchesAt(s, i) ==
  LET e == DigitRunEnd(s, i + 1) IN
  /\ CharAt(s, i) = "/"
  /\ e >= i + 1
  /\ CharAt(s, e + 1) = "/"
  /\ CharAt(s, e + 2) \in Digits

\* The leftmost position from i on at which the pattern matches, 0 if none.
RECURSIVE FirstMatch(_, _)
FirstMatch(s, i) ==
  IF i > Len(s) THEN 0
  ELSE IF MatchesAt(s, i) THEN i
  ELSE FirstMatch(s, i + 1)

\* match[1]: the digits of the first group of the match at position m.
Group1(s, m) == SubSeq(s, m + 1, DigitRunEnd(s, m + 1))

extractProjectId_noNullGuard(url) ==
  IF url.kind # "string" THEN Raised
  ELSE LET m == FirstMatch(url.val, 1) IN
       IF m = 0 THEN Null ELSE Str(Group1(url.val, m))

\* A truthy url that is no string has no match method: TypeError.
extractProjectId(url) ==
  IF ~Truthy(url) THEN Null
  ELSE IF url.kind # "string" THEN Raised
  ELSE LET m == FirstMatch(url.val, 1) IN
       IF m = 0 THEN Null ELSE Str(Group1(url.val, m))

---------------------------------------------------------------------------
(* mapProjectStage: the alias table, compared with ===.                    *)
mapProjectStage_identity(stage) == stage

mapProjectStage_noPreDesign(stage) ==
  IF ~Truthy(stage) THEN stage
  ELSE IF \/ stage = Str("Pre-Bid") \/ stage = Str("Bid Date Set")
          \/ stage = Str("Biddate Set") \/ stage = Str("Schematic Design")
          \/ stage = Str("Design Development")
    THEN Str("Bid Date Set")
  ELSE IF stage = Str("Open Bid") \/ stage = Str("SUBBIDS: ASAP")
    THEN Str("OB")
  ELSE IF \/ stage = Str("Low Bid Apparent")
          \/ stage = Str("Low Bid / Apparent")
          \/ stage = Str("Low Bids Announced")
    THEN Str("LBA")
  ELSE IF \/ stage = Str("Post-Bid - General Contractor Award")
          \/ stage = Str("Architectural General Contracting")
          \/ stage = Str("General Contractor Award")
    THEN Str("AGC")
  ELSE IF stage = Str("Post Bid") THEN Str("PB")
  ELSE IF stage = Str("General Contract") \/ stage = Str("Construction Underway")
    THEN Str("GC")
  ELSE IF stage = Str("Construction Manager") THEN Str("CM")
  ELSE IF stage = Str("Construction Documents") THEN Str("CD")
  ELSE stage

mapProjectStage(stage) ==
  IF ~Truthy(stage) THEN stage
  ELSE IF \/ stage = Str("Pre-Bid") \/ stage = Str("Bid Date Set")
          \/ stage = Str("Biddate Set") \/ stage = Str("Schematic Design")
          \/ stage = Str("Design Development")
    THEN Str("Bid Date Set")
  ELSE IF stage = Str("Open Bid") \/ stage = Str("SUBBIDS: ASAP")
    THEN Str("OB")
  ELSE IF \/ stage = Str("Low Bid Apparent")
          \/ stage = Str("Low Bid / Apparent")
          \/ stage = Str("Low Bids Announced")
    THEN Str("LBA")
  ELSE IF \/ stage = Str("Post-Bid - General Contractor Award")
          \/ stage = Str("Architectural General Contracting")
          \/ stage = Str("General Contractor Award")
    THEN Str("AGC")
  ELSE IF stage = Str("Post Bid") THEN Str("PB")
  ELSE IF stage = Str("General Contract") \/ stage = Str("Construction Underway")
    THEN Str("GC")
  ELSE IF stage = Str("Construction Manager") THEN Str("CM")
  ELSE IF stage = Str("Construction Documents") \/ stage = Str("Pre-Design")
    THEN Str("CD")
  ELSE stage

---------------------------------------------------------------------------
(* matchLeadsWithProjects, src/unnamed/part_002 (Map-based, stage-aware).  *)

\* The Pipedrive custom-field keys of the project URL and of the stage.
PIPEDRIVE_URL_FIELD == "3fea11727cd0340a9eb1c3d18e0d4d15151fad38"
PIPEDRIVE_STAGE_FIELD == "7c1852c27664d1118f75660223a6af9e99d10f2c"

\* new Map(): keys are identifier texts, compared by value.
EmptyMap == [k \in {} |-> Undefined]

MapSet_keepFirst(map, key, value) ==
  IF key \in DOMAIN map THEN map
  ELSE [k \in DOMAIN map \cup {key} |-> IF k = key THEN value ELSE map[k]]

\* railwayProjectMap.set(projectId, p): a later value replaces an earlier one.
MapSet(map, key, value) ==
  [k \in DOMAIN map \cup {key} |-> IF k = key THEN value ELSE map[k]]

\* railwayProjects.forEach(p => ...): the map after the projects from i on,
\* or Raised when extractProjectId throws on one of them.
RECURSIVE BuildProjectMap(_, _, _)
BuildProjectMap(railwayProjects, i, map) ==
  IF i > Len(railwayProjects) THEN [kind |-> "map", entries |-> map]
  ELSE LET projectId == extractProjectId(Prop(railwayProjects[i], "url")) IN
       IF projectId.kind = "throw" THEN Raised
       ELSE IF Truthy(projectId)
         THEN BuildProjectMap(railwayProjects, i + 1,
                              MapSet(map, projectId.val, railwayProjects[i]))
       ELSE BuildProjectMap(railwayProjects, i + 1, map)

LeadProjectId_noGuard(lead) ==
  extractProjectId_noNullGuard(Prop(lead, PIPEDRIVE_URL_FIELD))

\* The identifier of a lead: null when its URL field is falsy (the lead is
\* passed over without a call) or yields none, Raised when the call throws.
LeadProjectId(lead) ==
  IF ~Truthy(Prop(lead, PIPEDRIVE_URL_FIELD)) THEN Null
  ELSE extractProjectId(Prop(lead, PIPEDRIVE_URL_FIELD))

StageChanged_rawStage(pipedriveStage, matchedProject) ==
  pipedriveStage # Prop(matchedProject, "stage")

\* pipedriveStage !== railwayMappedStage
StageChanged(pipedriveStage, matchedProject) ==
  pipedriveStage # mapProjectStage(Prop(matchedProject, "stage"))

MatchData_swapped(lead, matchedProject, pipedriveProjectId) ==
  Obj([lead |-> lead,
       matchedProject |-> matchedProject,
       projectId |-> pipedriveProjectId,
       pipedriveStage |-> Prop(matchedProject, "stage"),
       railwayStage |-> Prop(lead, PIPEDRIVE_STAGE_FIELD),
       railwayMappedStage |-> mapProjectStage(Prop(matchedProject, "stage")),
       stageChanged |->
         Bool(StageChanged(Prop(lead, PIPEDRIVE_STAGE_FIELD), matchedProject))])

\* const matchData = {...}
MatchData(lead, matchedProject, pipedriveProjectId) ==
  Obj([lead |-> lead,
       matchedProject |-> matchedProject,
       projectId |-> pipedriveProjectId,
       pipedriveStage |-> Prop(lead, PIPEDRIVE_STAGE_FIELD),
       railwayStage |-> Prop(matchedProject, "stage"),
       railwayMappedStage |-> mapProjectStage(Prop(matchedProject, "stage")),
       stageChanged |->
         Bool(StageChanged(Prop(lead, PIPEDRIVE_STAGE_FIELD), matchedProject))])

\* for (const lead of pipedriveLeads): the matches pushed from lead i on,
\* after acc, or Raised when extractProjectId throws on a lead.
RECURSIVE MatchLoop(_, _, _, _)
MatchLoop(leads, i, map, acc) ==
  IF i > Len(leads) THEN Arr(acc)
  ELSE LET lead == leads[i]
           pipedriveProjectId == LeadProjectId(lead)
       IN
       IF pipedriveProjectId.kind = "throw" THEN Raised
       ELSE IF ~Truthy(pipedriveProjectId) THEN MatchLoop(leads, i + 1, map, acc)
       ELSE IF pipedriveProjectId.val \notin DOMAIN map
         THEN MatchLoop(leads, i + 1, map, acc)
       ELSE IF StageChanged(Prop(lead, PIPEDRIVE_STAGE_FIELD),
                            map[pipedriveProjectId.val])
         THEN MatchLoop(leads, i + 1, map,
                Append(acc, MatchData(lead, map[pipedriveProjectId.val],
                                      pipedriveProjectId)))
       ELSE MatchLoop(leads, i + 1, map, acc)

matchLeadsWithProjects(leads, railwayProjects) ==
  LET built == BuildProjectMap(railwayProjects, 1, EmptyMap) IN
  IF built.kind = "throw" THEN Raised
  ELSE MatchLoop(leads, 1, built.entries, <<>>)

---------------------------------------------------------------------------
(* matchLeadsWithProjects, src/index.js (Set/find-based, no stages).       *)

\* railwayProjects.map(p => extractProjectId(p.url)): the identifiers in
\* project order, or Raised.
RECURSIVE ProjectIds(_, _, _)
ProjectIds(railwayProjects, i, acc) ==
  IF i > Len(railwayProjects) THEN Arr(acc)
  ELSE LET id == extractProjectId(Prop(railwayProjects[i], "url")) IN
       IF id.kind = "throw" THEN Raised
       ELSE ProjectIds(railwayProjects, i + 1, Append(acc, id))

\* new Set(ids.filter(id => id !== null)): the identifier texts.
RailwayProjectIdSet(ids) ==
  {ids[i].val : i \in {j \in 1..Len(ids) : ids[j] # Null}}

\* railwayProjects.find(p => extractProjectId(p.url) === id): the first
\* project from i on with this identifier, undefined when there is none.
RECURSIVE FindProject(_, _, _)
FindProject(railwayProjects, i, id) ==
  IF i > Len(railwayProjects) THEN Undefined
  ELSE IF extractProjectId(Prop(railwayProjects[i], "url")) = id
    THEN railwayProjects[i]
  ELSE FindProject(railwayProjects, i + 1, id)

RECURSIVE MatchLoopSetFind(_, _, _, _, _)
MatchLoopSetFind(leads, i, railwayProjects, idSet, acc) ==
  IF i > Len(leads) THEN Arr(acc)
  ELSE LET lead == leads[i]
           pipedriveProjectId ==
             extractProjectId(Prop(lead, PIPEDRIVE_URL_FIELD))
       IN
       IF pipedriveProjectId.kind = "throw" THEN Raised
       ELSE IF ~Truthy(pipedriveProjectId)
         THEN MatchLoopSetFind(leads, i + 1, railwayProjects, idSet, acc)
       ELSE IF pipedriveProjectId.val \in idSet
         THEN MatchLoopSetFind(leads, i + 1, railwayProjects, idSet,
                Append(acc,
                  Obj([lead |-> lead,
                       matchedProject |->
                         FindProject(railwayProjects, 1, pipedriveProjectId),
                       projectId |-> pipedriveProjectId])))
       ELSE MatchLoopSetFind(leads, i + 1, railwayProjects, idSet, acc)

matchLeadsWithProjectsSetFind(leads, railwayProjects) ==
  LET ids == ProjectIds(railwayProjects, 1, <<>>) IN
  IF ids.kind = "throw" THEN Raised
  ELSE MatchLoopSetFind(leads, 1, railwayProjects,
                        RailwayProjectIdSet(ids.items), <<>>)

---------------------------------------------------------------------------
(* cleanProjectData, src/index.js (the trees are those xml2js builds:      *)
(* attributes under "$", text under "_", child elements in arrays).        *)

\* ensureArray: the items of the array it returns.
ensureArray(data) ==
  IF ~Truthy(data) THEN <<>>
  ELSE IF data.kind = "array" THEN data.items
  ELSE <<data>>

\* An object literal: a TypeError raised while one of its values is
\* computed leaves no object.
Literal(fields) ==
  IF \E k \in DOMAIN fields : fields[k].kind = "throw" THEN Raised
  ELSE Obj(fields)

\* The array that array.map(...) returns, given the results of its
\* callback: a TypeError raised on an item leaves no array.
Mapped(results) ==
  IF \E i \in 1..Len(results) : results[i].kind = "throw" THEN Raised
  ELSE Arr(results)

CleanContact(contact) ==
  Literal([contactId |-> OptProp(Prop(contact, "$"), "ContactID"),
           name |-> OptProp(Prop(contact, "$"), "Name"),
           email |-> OptAt0(Prop(contact, "Email")),
           phone |-> OptAt0(Prop(contact, "PhoneNumber")),
           linkedin |-> OptAt0(Prop(contact, "LinkedInURL"))])

HasName(c) == Truthy(Prop(c, "name"))

getContacts_noFilter(c) ==
  LET contactsRaw ==
        ensureArray(OptProp(OptAt0(Prop(c, "Contacts")), "Contact"))
  IN Mapped([i \in 1..Len(contactsRaw) |-> CleanContact(contactsRaw[i])])

getContacts(c) ==
  LET contactsRaw ==
        ensureArray(OptProp(OptAt0(Prop(c, "Contacts")), "Contact"))
      mapped ==
        Mapped([i \in 1..Len(contactsRaw) |-> CleanContact(contactsRaw[i])])
  IN IF mapped.kind = "throw" THEN Raised
     ELSE Arr(SelectSeq(mapped.items, HasName))

getAddress(c) ==
  LET addresses == ensureArray(OptProp(OptAt0(Prop(c, "Addresses")), "Address"))
      addressRaw == IF Len(addresses) > 0 THEN addresses[1] ELSE Undefined
  IN IF ~Truthy(addressRaw) THEN Null
     ELSE Literal([type |-> OptProp(Prop(addressRaw, "$"), "AddressType"),
                   addressLine1 |-> OptAt0(Prop(addressRaw, "AddressLine1")),
                   addressLine2 |-> OptAt0(Prop(addressRaw, "AddressLine2")),
                   city |-> OptAt0(Prop(addressRaw, "City")),
                   state |-> OptAt0(Prop(addressRaw, "StateProvince")),
                   zip |-> OptAt0(Prop(addressRaw, "ZipPostalCode")),
                   county |-> OptAt0(Prop(addressRaw, "County"))])

CleanPhone(phone) ==
  Literal([type |-> OptProp(Prop(phone, "$"), "PhoneType"),
           number |-> Prop(phone, "_")])

getPhones(c) ==
  LET phonesRaw == ensureArray(OptProp(OptAt0(Prop(c, "Phones")), "Phone"))
  IN Mapped([i \in 1..Len(phonesRaw) |-> CleanPhone(phonesRaw[i])])

\* const cleanedCompany = {...}
CleanedCompany(company) ==
  Literal([companyId |-> OptProp(Prop(company, "$"), "CompanyID"),
           name |-> OptProp(Prop(company, "$"), "Name"),
           url |-> OptProp(Prop(company, "$"), "URL"),
           website |-> OptAt0(Prop(company, "Website")),
           email |-> OptAt0(Prop(company, "Email")),
           contacts |-> getContacts(company),
           address |-> getAddress(company),
           phones |-> getPhones(company)])

\* company.ClassificationTypes?.[0]?.ClassificationType?.[0]?.$?.<name>
FirstClassificationAttr(company, name) ==
  OptProp(OptProp(OptAt0(OptProp(OptAt0(Prop(company, "ClassificationTypes")),
                                 "ClassificationType")),
                  "$"),
          name)

projectTeamRoles ==
  {Str("Architect"), Str("Engineer"), Str("Consultant"), Str("Owner"),
   Str("Tenant")}

CompanyRole_roleOnly(company) == OptProp(Prop(company, "$"), "Role")

\* let companyRole = company.$?.Role; if (!companyRole) companyRole = ...Type
CompanyRole(company) ==
  IF Truthy(OptProp(Prop(company, "$"), "Role"))
    THEN OptProp(Prop(company, "$"), "Role")
  ELSE FirstClassificationAttr(company, "Type")

\* obj.name = value on an object built before.
WithField(obj, name, value) ==
  Obj([k \in DOMAIN obj.fields \cup {name} |->
         IF k = name THEN value ELSE obj.fields[k]])

BidderRank_ofCompany(company) == OptProp(Prop(company, "$"), "Rank")

\* cleanedCompany.rank = ...
BidderRank(company) == FirstClassificationAttr(company, "Rank")

PushCompany_teamToo(lists, company, cleanedCompany) ==
  IF Truthy(OptProp(Prop(company, "$"), "BiddingRole"))
    THEN [prospectiveBidders |->
            Append(lists.prospectiveBidders,
                   WithField(WithField(cleanedCompany, "role",
                               OptProp(Prop(company, "$"), "BiddingRole")),
                             "rank", BidderRank(company))),
          projectTeam |->
            IF CompanyRole(company) \in projectTeamRoles
              THEN Append(lists.projectTeam,
                          WithField(cleanedCompany, "role",
                                    CompanyRole(company)))
            ELSE lists.projectTeam]
  ELSE IF CompanyRole(company) \in projectTeamRoles
    THEN [prospectiveBidders |-> lists.prospectiveBidders,
          projectTeam |->
            Append(lists.projectTeam,
                   WithField(cleanedCompany, "role", CompanyRole(company)))]
  ELSE lists

\* The classification of one company: if (company.$?.BiddingRole) {...}
\* else {...}, on the two lists built so far.
PushCompany(lists, company, cleanedCompany) ==
  IF Truthy(OptProp(Prop(company, "$"), "BiddingRole"))
    THEN [prospectiveBidders |->
            Append(lists.prospectiveBidders,
                   WithField(WithField(cleanedCompany, "role",
                               OptProp(Prop(company, "$"), "BiddingRole")),
                             "rank", BidderRank(company))),
          projectTeam |-> lists.projectTeam]
  ELSE IF CompanyRole(company) \in projectTeamRoles
    THEN [prospectiveBidders |-> lists.prospectiveBidders,
          projectTeam |->
            Append(lists.projectTeam,
                   WithField(cleanedCompany, "role", CompanyRole(company)))]
  ELSE lists

\* companies.forEach(company => ...): the two lists after the companies
\* from i on, or Raised.
RECURSIVE CompaniesLoop(_, _, _)
CompaniesLoop(companies, i, lists) ==
  IF i > Len(companies) THEN [kind |-> "lists", lists |-> lists]
  ELSE IF CleanedCompany(companies[i]).kind = "throw" THEN Raised
  ELSE CompaniesLoop(companies, i + 1,
                     PushCompany(lists, companies[i],
                                 CleanedCompany(companies[i])))

\* if (project.Companies && project.Companies[0].Company): the company
\* nodes of a project, none when the test fails, Raised when it throws.
CompaniesOf(project) ==
  IF ~Truthy(Prop(project, "Companies")) THEN Arr(<<>>)
  ELSE LET company == Prop(At0(Prop(project, "Companies")), "Company") IN
       IF company.kind = "throw" THEN Raised
       ELSE IF ~Truthy(company) THEN Arr(<<>>)
       ELSE Arr(ensureArray(company))

\* projects.map(project => {...})
CleanProject(project) ==
  LET scalars ==
        Literal([projectId |-> OptProp(Prop(project, "$"), "ProjectID"),
                 title |-> OptProp(Prop(project, "$"), "Title"),
                 stage |-> OptProp(Prop(project, "$"), "Stage"),
                 url |-> OptProp(Prop(project, "$"), "URL"),
                 updateDate |-> OptProp(Prop(project, "$"), "UpdateDate"),
                 updateText |-> OptProp(Prop(project, "$"), "UpdateText")])
      companies == CompaniesOf(project)
      built == CompaniesLoop(companies.items, 1,
                 [prospectiveBidders |-> <<>>, projectTeam |-> <<>>])
  IN IF scalars.kind = "throw" \/ companies.kind = "throw" THEN Raised
     ELSE IF built.kind = "throw" THEN Raised
     ELSE WithField(WithField(scalars, "prospectiveBidders",
                              Arr(built.lists.prospectiveBidders)),
                    "projectTeam", Arr(built.lists.projectTeam))

cleanProjectData(data) ==
  IF Prop(data, "Projects").kind = "throw" THEN Raised
  ELSE IF \/ ~Truthy(Prop(data, "Projects"))
          \/ ~Truthy(Prop(Prop(data, "Projects"), "Project"))
    THEN data
  ELSE LET projects == ensureArray(Prop(Prop(data, "Projects"), "Project"))
       IN Literal([projects |->
            Mapped([i \in 1..Len(projects) |-> CleanProject(projects[i])])])

---------------------------------------------------------------------------
(* The inputs of the reconciliation.                                       *)

\* A cleaned project as cleanProjectData builds it, without companies.
Project(projectId, url, stage) ==
  Obj([projectId |-> Str(projectId), title |-> Undefined, stage |-> stage,
       url |-> url, updateDate |-> Undefined, updateText |-> Undefined,
       prospectiveBidders |-> Arr(<<>>), projectTeam |-> Arr(<<>>)])

\* A CRM lead: an id, a title and the two custom fields, either of which
\* may be missing from the record.
Lead(id, url, stage) ==
  Obj(("id" :> Str(id)) @@ ("title" :> Str(id))
      @@ (PIPEDRIVE_URL_FIELD :> url) @@ (PIPEDRIVE_STAGE_FIELD :> stage))
LeadNoUrl(id, stage) ==
  Obj(("id" :> Str(id)) @@ ("title" :> Str(id))
      @@ (PIPEDRIVE_STAGE_FIELD :> stage))
LeadNoStage(id, url) ==
  Obj(("id" :> Str(id)) @@ ("title" :> Str(id))
      @@ (PIPEDRIVE_URL_FIELD :> url))

Project111PreBid == Project("A", Str("x.co/111/1"), Str("Pre-Bid"))
Project111OpenBid == Project("B", Str("x.co/111/2/"), Str("Open Bid"))
Lead111PreBid == Lead("1", Str("x.co/111/1"), Str("Pre-Bid"))
Lead111BidDateSet == Lead("2", Str("x.co/111/1"), Str("Bid Date Set"))
Lead111SomethingElse == Lead("3", Str("x.co/111/1"), Str("Something Else"))

\* Two projects with the identifier 111, one without URL and stage, and
\* one whose URL is a number.
ProjectSamples ==
  { Project111PreBid,
    Project111OpenBid,
    Project("D", Undefined, Undefined),
    Project("F", Num(5), Str("Post Bid")) }

\* Leads with the identifier 111 and several stages, one of them with
\* another URL; a lead without URL field, one whose URL has no identifier,
\* one without stage field whose identifier no project has, and one whose
\* URL is a number.
LeadSamples ==
  { Lead111PreBid,
    Lead111BidDateSet,
    Lead111SomethingElse,
    Lead("4", Str("y.co/a/111/7/"), Str("OB")),
    LeadNoUrl("6", Str("OB")),
    Lead("7", Str("x.co/about/1"), Str("OB")),
    LeadNoStage("8", Str("x.co/333/1")),
    Lead("10", Num(5), Str("OB")) }

\* The sequences over S of length at most n.
SeqsUpTo(S, n) == UNION {[1..k -> S] : k \in 0..n}

---------------------------------------------------------------------------
(* The inputs of the extraction: parsed documents.                         *)

NoFields == [k \in {} |-> Undefined]

\* An element with the attribute set attrs and the child elements rest.
Element(attrs, rest) == Obj(("$" :> Obj(attrs)) @@ rest)

\* <ClassificationTypes><ClassificationType .../></ClassificationTypes>
Classification(attrs) ==
  Arr(<<Obj([ClassificationType |-> Arr(<<Element(attrs, NoFields)>>)])>>)

ContactAnn ==
  Element([ContactID |-> Str("k1"), Name |-> Str("Ann")],
          [Email |-> Arr(<<Str("ann@x.com")>>),
           PhoneNumber |-> Arr(<<Str("555-0101")>>)])
ContactNoName ==
  Element([ContactID |-> Str("k2")], [Email |-> Arr(<<Str("who@x.com")>>)])
ContactEmptyName ==
  Element([ContactID |-> Str("k3"), Name |-> Str("")], NoFields)
ContactBob ==
  Element([ContactID |-> Str("k4"), Name |-> Str("Bob")],
          [LinkedInURL |-> Arr(<<Str("https://linkedin.com/in/bob")>>)])
\* <Contact/> with neither attributes nor children.
ContactEmptyElement == Str("")

Contacts(items) == Arr(<<Obj([Contact |-> Arr(items)])>>)

CompanySamples ==
  { \* a bidder with a ranked classification and a mixed contact list
    Element([CompanyID |-> Str("c1"), Name |-> Str("Acme"),
             BiddingRole |-> Str("Prime Bidder")],
            [ClassificationTypes |->
               Classification([Type |-> Str("General Contractor"),
                               Rank |-> Str("1")]),
             Contacts |-> Contacts(<<ContactAnn, ContactNoName, ContactBob>>),
             Addresses |->
               Arr(<<Obj([Address |->
                 Arr(<<Element([AddressType |-> Str("Office")],
                               [City |-> Arr(<<Str("Reno")>>)])>>)])>>),
             Phones |->
               Arr(<<Obj([Phone |->
                 Arr(<<Obj(("$" :> Obj([PhoneType |-> Str("Main")]))
                           @@ ("_" :> Str("555-0100")))>>)])>>)]),
    \* a bidder that also has a team role, without classification
    Element([CompanyID |-> Str("c2"), BiddingRole |-> Str("Bidder"),
             Role |-> Str("Architect")],
            [Contacts |-> Contacts(<<ContactEmptyName, ContactAnn>>)]),
    \* an empty bidding role and a team role
    Element([CompanyID |-> Str("c3"), BiddingRole |-> Str(""),
             Role |-> Str("Engineer")], NoFields),
    \* a team role in the Role attribute; its one contact is no array
    Element([CompanyID |-> Str("c4"), Role |-> Str("Architect")],
            [Contacts |-> Arr(<<Obj([Contact |-> ContactBob])>>)]),
    \* a team role only in the classification
    Element([CompanyID |-> Str("c5")],
            [ClassificationTypes |-> Classification([Type |-> Str("Owner")]),
             Contacts |-> Contacts(<<ContactBob, ContactEmptyElement,
                                     ContactAnn>>)]),
    \* another Role attribute, a team role in the classification
    Element([CompanyID |-> Str("c6"), Role |-> Str("Contractor")],
            [ClassificationTypes |->
               Classification([Type |-> Str("Architect")])]),
    \* an empty Role attribute, a team role in the classification
    Element([CompanyID |-> Str("c7"), Role |-> Str("")],
            [ClassificationTypes |->
               Classification([Type |-> Str("Tenant"), Rank |-> Str("2")])]),
    \* neither bidding role nor team role; <ClassificationTypes/> is empty
    Element([CompanyID |-> Str("c8"), Role |-> Str("Subcontractor")],
            [ClassificationTypes |-> Arr(<<Str("")>>)]),
    \* no attribute set at all
    Obj([Website |-> Arr(<<Str("https://nine.example")>>)]) }

ProjectAttrs ==
  [ProjectID |-> Str("P1"), Title |-> Str("Library"),
   Stage |-> Str("Pre-Bid"), URL |-> Str("x.co/111/1"),
   UpdateDate |-> Str("2024-01-01"), UpdateText |-> Str("updated")]

\* <Project ...><Companies><Company/>...</Companies></Project>
ProjectNode(companies) ==
  Element(ProjectAttrs,
          [Companies |-> Arr(<<Obj([Company |-> Arr(companies)])>>)])

Document(projects) == Obj([Projects |-> Obj([Project |-> projects])])

\* One sample as a sequence, for the shapes below.
OneCompany == <<CHOOSE c \in CompanySamples :
                  Prop(Prop(c, "$"), "CompanyID") = Str("c1")>>

\* The shapes a document takes beside a list of projects with companies.
DocumentShapes ==
  { \* no project container, an empty one, one without projects
    Obj([Catalog |-> Obj([Item |-> Arr(<<Str("x")>>)])]),
    Obj([Projects |-> Str("")]),
    Obj([Projects |-> Obj([Note |-> Arr(<<Str("none")>>)])]),
    \* the project is a single child, not a list
    Document(ProjectNode(OneCompany)),
    \* two projects, the second without attributes and companies
    Document(Arr(<<ProjectNode(OneCompany), Obj(NoFields)>>)),
    \* no Companies, <Companies/>, a Companies element without Company
    Document(Arr(<<Element(ProjectAttrs, NoFields)>>)),
    Document(Arr(<<Element(ProjectAttrs, [Companies |-> Arr(<<Str("")>>)])>>)),
    Document(Arr(<<Element(ProjectAttrs,
                     [Companies |-> Arr(<<Obj([Note |-> Arr(<<Str("n")>>)])>>)])>>)),
    \* the company is a single child, not a list
    Document(Arr(<<Element(ProjectAttrs,
                     [Companies |-> Arr(<<Obj([Company |-> OneCompany[1]])>>)])>>)),
    \* the Companies container is a single child, not a list
    Document(Arr(<<Element(ProjectAttrs,
                     [Companies |-> Obj([Company |-> Arr(OneCompany)])])>>)),
    \* the parser's result for an empty document
    Null }

Documents ==
  {Document(Arr(<<ProjectNode(cs)>>)) :
     cs \in SeqsUpTo(CompanySamples, MaxCompanies)}
  \cup DocumentShapes

---------------------------------------------------------------------------
(* The reconciliation as a state machine: the two lists are chosen, and    *)
(* each version of matchLeadsWithProjects is called on them once.          *)

ExtractIdle == parsed = Undefined /\ cleaned = NotCalled

\* The calls of the two leaf functions, the fetch and the handler at rest.
IdentifierIdle == urlArg = Undefined /\ idResult = NotCalled
StageIdle == stageArg = Undefined /\ stageResult = NotCalled
FetchIdle ==
  /\ pages = <<>> /\ start = 0 /\ allLeads = <<>> /\ fetchPc = "idle"
ProcessIdle ==
  /\ version = "none" /\ reqFile = FALSE /\ archive = <<>> /\ corruptAt = -1
  /\ emitted = 0 /\ tasks = <<>> /\ xmlFiles = <<>> /\ pc = "idle"
  /\ responses = <<>>

ReconcileInit ==
  /\ pipedriveLeads \in SeqsUpTo(LeadSamples, MaxLeads)
  /\ allRailwayProjects \in SeqsUpTo(ProjectSamples, MaxProjects)
  /\ matches = NotCalled
  /\ matchesIdx = NotCalled
  /\ ExtractIdle /\ IdentifierIdle /\ StageIdle /\ FetchIdle /\ ProcessIdle

\* const matches = matchLeadsWithProjects(pipedriveLeads, allRailwayProjects)
CallMatch ==
  /\ matches = NotCalled
  /\ matches' = matchLeadsWithProjects(pipedriveLeads, allRailwayProjects)
  /\ UNCHANGED <<pipedriveLeads, allRailwayProjects, matchesIdx, extractVars,
                 identifierVars, stageVars, fetchVars, processVars>>

\* The same call in src/index.js.
CallMatchSetFind ==
  /\ matchesIdx = NotCalled
  /\ matchesIdx' =
       matchLeadsWithProjectsSetFind(pipedriveLeads, allRailwayProjects)
  /\ UNCHANGED <<pipedriveLeads, allRailwayProjects, matches, extractVars,
                 identifierVars, stageVars, fetchVars, processVars>>

ReconcileNext == CallMatch \/ CallMatchSetFind

SpecReconcile == ReconcileInit /\ [][ReconcileNext]_vars

---------------------------------------------------------------------------
(* Properties of the reconciliation.                                       *)

Range(s) == {s[i] : i \in 1..Len(s)}

\* The identifier the claims speak of: extractId of a URL.
IdOfUrl(url) == extractProjectId(url)

\* The positions of the projects whose URL yields the identifier id.
ProjectsWithId(id) ==
  {i \in 1..Len(allRailwayProjects) :
     IdOfUrl(Prop(allRailwayProjects[i], "url")) = id}

Max(S) == CHOOSE x \in S : \A y \in S : y <= x
Min(S) == CHOOSE x \in S : \A y \in S : x <= y
LastProjectWithId(id) == allRailwayProjects[Max(ProjectsWithId(id))]
FirstProjectWithId(id) == allRailwayProjects[Min(ProjectsWithId(id))]

\* The sequence of the values of one property over the items of a result.
Column(result, name) ==
  [i \in 1..Len(result.items) |-> Prop(result.items[i], name)]

\* C1 as stated: one project (.../111/1, Pre-Bid) and one lead (.../111/1,
\* Pre-Bid) reconcile to the empty list.
C1_Original ==
  ( /\ pipedriveLeads = <<Lead111PreBid>>
    /\ allRailwayProjects = <<Project111PreBid>>
    /\ matches # NotCalled )
  => matches = Arr(<<>>)

\* C1 as amended: the lead's raw stage is compared with the canonicalized
\* stage of the project, so the list is empty for the lead whose stage is
\* "Bid Date Set", and holds one stage-changed record for the lead whose
\* stage is "Pre-Bid".
C1_Amended ==
  /\ ( /\ pipedriveLeads = <<Lead111BidDateSet>>
       /\ allRailwayProjects = <<Project111PreBid>>
       /\ matches # NotCalled )
     => matches = Arr(<<>>)
  /\ ( /\ pipedriveLeads = <<Lead111PreBid>>
       /\ allRailwayProjects = <<Project111PreBid>>
       /\ matches # NotCalled )
     => /\ matches.kind = "array"
        /\ Column(matches, "lead") = <<Lead111PreBid>>
        /\ Column(matches, "stageChanged") = <<Bool(TRUE)>>

C1_Witness ==
  /\ pipedriveLeads = <<Lead111BidDateSet>>
  /\ allRailwayProjects = <<Project111PreBid>>
  /\ matches = Arr(<<>>)

\* (a), (b) and (c) of C2 for one lead.
LeadQualifies(lead) ==
  LET id == IdOfUrl(Prop(lead, PIPEDRIVE_URL_FIELD)) IN
  /\ Truthy(id)
  /\ ProjectsWithId(id) # {}
  /\ Prop(lead, PIPEDRIVE_STAGE_FIELD)
       # mapProjectStage(Prop(LastProjectWithId(id), "stage"))

\* C2: the returned list holds, in lead order, one record for each lead
\* that has an identifier, whose identifier is mapped, and whose stage
\* differs from the canonicalized stage of the mapped project; it holds
\* nothing else, and no record with stageChanged false.
C2_ExactlyTheChangedLeads ==
  matches.kind = "array" =>
    /\ Column(matches, "lead") = SelectSeq(pipedriveLeads, LeadQualifies)
    /\ \A i \in 1..Len(matches.items) :
         Prop(matches.items[i], "stageChanged") = Bool(TRUE)

\* Two leads with mapped identifiers, the first with the stage of its
\* project (left out), the second with another stage (reported).
C2_Witness ==
  /\ matches.kind = "array"
  /\ Len(pipedriveLeads) = 2
  /\ \A i \in 1..2 :
       /\ Truthy(Prop(pipedriveLeads[i], PIPEDRIVE_URL_FIELD))
       /\ Truthy(IdOfUrl(Prop(pipedriveLeads[i], PIPEDRIVE_URL_FIELD)))
       /\ ProjectsWithId(IdOfUrl(Prop(pipedriveLeads[i],
                                      PIPEDRIVE_URL_FIELD))) # {}
  /\ Column(matches, "lead") = <<pipedriveLeads[2]>>
  /\ pipedriveLeads[1] # pipedriveLeads[2]

C4_RecordFields ==
  /\ matches.kind = "array" =>
       \A i \in 1..Len(matches.items) :
         LET rec == matches.items[i]
             lead == Prop(rec, "lead")
             id == IdOfUrl(Prop(lead, PIPEDRIVE_URL_FIELD))
         IN
         /\ DOMAIN rec.fields =
              {"lead", "matchedProject", "projectId", "pipedriveStage",
               "railwayStage", "railwayMappedStage", "stageChanged"}
         /\ lead \in Range(pipedriveLeads)
         /\ Truthy(id)
         /\ Prop(rec, "projectId") = id
         /\ Prop(rec, "matchedProject") = LastProjectWithId(id)
         /\ IdOfUrl(Prop(Prop(rec, "matchedProject"), "url")) = id
         /\ Prop(rec, "pipedriveStage") = Prop(lead, PIPEDRIVE_STAGE_FIELD)
         /\ Prop(rec, "railwayStage")
              = Prop(Prop(rec, "matchedProject"), "stage")
         /\ Prop(rec, "railwayMappedStage")
              = mapProjectStage(Prop(Prop(rec, "matchedProject"), "stage"))
         /\ Prop(rec, "stageChanged") = Bool(TRUE)
  /\ ( /\ pipedriveLeads = <<Lead111SomethingElse>>
       /\ allRailwayProjects = <<Project111PreBid>>
       /\ matches # NotCalled )
     => /\ matches.kind = "array"
        /\ Column(matches, "stageChanged") = <<Bool(TRUE)>>
        /\ Column(matches, "railwayMappedStage") = <<Str("Bid Date Set")>>

C4_Witness ==
  /\ pipedriveLeads = <<Lead111SomethingElse>>
  /\ allRailwayProjects = <<Project111PreBid>>
  /\ matches.kind = "array"
  /\ Len(matches.items) = 1

\* The identifiers of the projects whose URL is a string.
MappedIds ==
  {IdOfUrl(Prop(allRailwayProjects[i], "url")) :
     i \in {j \in 1..Len(allRailwayProjects) :
              Prop(allRailwayProjects[j], "url").kind = "string"}}

\* The leads C5 speaks of: the URL field is absent, or it is a string that
\* yields no identifier or one that no project has.
LeadPassedOver(lead) ==
  LET url == Prop(lead, PIPEDRIVE_URL_FIELD) IN
  \/ IsNullish(url)
  \/ /\ url.kind = "string"
     /\ \/ ~Truthy(IdOfUrl(url))
        \/ IdOfUrl(url) \notin MappedIds
LeadNotPassedOver(lead) == ~LeadPassedOver(lead)

\* C5: a lead whose URL field is absent, yields no identifier, or yields
\* one that is not mapped is in no returned record, and the call ends as it
\* does without these leads: with the same error or the same records in the
\* same order.
C5_PassedOverLeads ==
  matches # NotCalled =>
    /\ matches = matchLeadsWithProjects(
                   SelectSeq(pipedriveLeads, LeadNotPassedOver),
                   allRailwayProjects)
    /\ matches.kind = "array" =>
         \A i \in 1..Len(matches.items) :
           ~LeadPassedOver(Prop(matches.items[i], "lead"))

\* A lead without URL field comes before a lead that is reported.
C5_Witness ==
  /\ matches.kind = "array"
  /\ Len(pipedriveLeads) = 2
  /\ PIPEDRIVE_URL_FIELD \notin DOMAIN pipedriveLeads[1].fields
  /\ Column(matches, "lead") = <<pipedriveLeads[2]>>

---------------------------------------------------------------------------
(* The extraction as a state machine: a parsed document is chosen and      *)
(* cleanProjectData is called on it once.                                  *)

ReconcileIdle ==
  /\ pipedriveLeads = <<>> /\ allRailwayProjects = <<>>
  /\ matches = NotCalled /\ matchesIdx = NotCalled

ExtractInit ==
  /\ parsed \in Documents
  /\ cleaned = NotCalled
  /\ ReconcileIdle /\ IdentifierIdle /\ StageIdle /\ FetchIdle /\ ProcessIdle

\* const cleaned = cleanProjectData(parsed)
CallClean ==
  /\ cleaned = NotCalled
  /\ cleaned' = cleanProjectData(parsed)
  /\ UNCHANGED <<parsed, reconcileVars, identifierVars, stageVars, fetchVars,
                 processVars>>

ExtractNext == CallClean

SpecExtract == ExtractInit /\ [][ExtractNext]_vars

---------------------------------------------------------------------------
(* Properties of the extraction.                                           *)

\* cleanProjectData went past its first test and returned the projects.
CleanRan ==
  /\ cleaned.kind = "object"
  /\ Truthy(Prop(parsed, "Projects"))
  /\ Truthy(Prop(Prop(parsed, "Projects"), "Project"))

\* The project nodes of the document, and the company nodes of one.
InputProjects == ensureArray(Prop(Prop(parsed, "Projects"), "Project"))
InputCompanies(j) == CompaniesOf(InputProjects[j]).items
OutputProjects == Prop(cleaned, "projects").items
Bidders(j) == Prop(OutputProjects[j], "prospectiveBidders").items
Team(j) == Prop(OutputProjects[j], "projectTeam").items

\* An attribute of a node, undefined when the node has none of that name.
Attr(node, name) == OptProp(Prop(node, "$"), name)

\* [F(s[1]), ..., F(s[n])]
MapSeq(F(_), s) == [i \in 1..Len(s) |-> F(s[i])]

\* C6: none of the core functions raises, whatever the shape of its input.
C6_NeverRaises == cleaned.kind # "throw"

\* A node with a bidding role: the attribute is there and is not empty.
HasBiddingRole(node) == Truthy(Attr(node, "BiddingRole"))
HasNoBiddingRole(node) == ~HasBiddingRole(node)
\* A node that carries the attribute, whatever its value.
CarriesBiddingRole(node) == Attr(node, "BiddingRole") # Undefined

\* What C7 says of the bidder built from a node, and what the output holds.
BidderOfNode(node) ==
  <<Attr(node, "CompanyID"), Attr(node, "BiddingRole"),
    FirstClassificationAttr(node, "Rank")>>
BidderRow(entry) ==
  <<Prop(entry, "companyId"), Prop(entry, "role"), Prop(entry, "rank")>>

\* C7 as stated: every company node that carries a BiddingRole attribute,
\* whatever its value, is in prospectiveBidders with that role and the
\* rank of its first ClassificationType.
C7_Original ==
  CleanRan =>
    \A j \in 1..Len(OutputProjects) :
      MapSeq(BidderRow, Bidders(j))
        = MapSeq(BidderOfNode, SelectSeq(InputCompanies(j), CarriesBiddingRole))

\* C7 as amended: every company node whose BiddingRole attribute is not
\* empty is in prospectiveBidders, whatever its Role and Type, with role
\* that value and rank the Rank of its first ClassificationType entry or
\* absent; prospectiveBidders holds these nodes in order and nothing else,
\* and projectTeam has no more entries than there are other nodes.
C7_Amended ==
  CleanRan =>
    \A j \in 1..Len(OutputProjects) :
      /\ MapSeq(BidderRow, Bidders(j))
           = MapSeq(BidderOfNode, SelectSeq(InputCompanies(j), HasBiddingRole))
      /\ Len(Team(j)) <= Len(SelectSeq(InputCompanies(j), HasNoBiddingRole))

\* A bidder with a rank, a bidder with a team role and no rank, and a node
\* with an empty bidding role, which is no bidder.
C7_Witness ==
  /\ CleanRan
  /\ Len(OutputProjects) = 1
  /\ Len(InputCompanies(1)) = 3
  /\ Len(Bidders(1)) = 2
  /\ Prop(Bidders(1)[1], "rank") = Str("1")
  /\ Prop(Bidders(1)[2], "rank") = Undefined
  /\ Attr(InputCompanies(1)[2], "Role") = Str("Architect")
  /\ Attr(InputCompanies(1)[3], "BiddingRole") = Str("")

\* The role C8 as amended speaks of: the Role attribute when it is not
\* empty, else the Type of the first ClassificationType entry.
ResolvedRole(node) ==
  IF Truthy(Attr(node, "Role")) THEN Attr(node, "Role")
  ELSE FirstClassificationAttr(node, "Type")
IsTeamNode(node) ==
  ~HasBiddingRole(node) /\ ResolvedRole(node) \in projectTeamRoles
TeamOfNode(node) == <<Attr(node, "CompanyID"), ResolvedRole(node)>>
TeamRow(entry) == <<Prop(entry, "companyId"), Prop(entry, "role")>>

\* The reading of C8 as stated: Role or Type is a team role.
IsTeamNodeEither(node) ==
  /\ ~HasBiddingRole(node)
  /\ \/ Attr(node, "Role") \in projectTeamRoles
     \/ FirstClassificationAttr(node, "Type") \in projectTeamRoles
TeamOfNodeEither(node) ==
  <<Attr(node, "CompanyID"),
    IF Attr(node, "Role") \in projectTeamRoles THEN Attr(node, "Role")
    ELSE FirstClassificationAttr(node, "Type")>>

\* C8 as stated: a node without bidding role whose Role attribute or whose
\* first ClassificationType's Type is a team role is in projectTeam with
\* that label; the other nodes without bidding role are in neither list.
C8_Original ==
  CleanRan =>
    \A j \in 1..Len(OutputProjects) :
      /\ MapSeq(TeamRow, Team(j))
           = MapSeq(TeamOfNodeEither,
                    SelectSeq(InputCompanies(j), IsTeamNodeEither))
      /\ Len(Bidders(j)) = Len(SelectSeq(InputCompanies(j), HasBiddingRole))

\* C8 as amended: a node without (non-empty) bidding role is in
\* projectTeam, with that role, exactly when its role is a team role, its
\* role being its Role attribute when that is not empty and else the Type
\* of its first ClassificationType entry; the others are in neither list.
C8_Amended ==
  CleanRan =>
    \A j \in 1..Len(OutputProjects) :
      /\ MapSeq(TeamRow, Team(j))
           = MapSeq(TeamOfNode, SelectSeq(InputCompanies(j), IsTeamNode))
      /\ Len(Bidders(j)) = Len(SelectSeq(InputCompanies(j), HasBiddingRole))

\* A team role from the Role attribute, one from the classification, and a
\* node whose Role attribute is another role and whose Type is a team role.
C8_Witness ==
  /\ CleanRan
  /\ Len(OutputProjects) = 1
  /\ Len(InputCompanies(1)) = 3
  /\ Len(Team(1)) = 2 /\ Len(Bidders(1)) = 0
  /\ Attr(InputCompanies(1)[1], "Role") = Str("Architect")
  /\ Attr(InputCompanies(1)[2], "Role") = Str("Contractor")
  /\ FirstClassificationAttr(InputCompanies(1)[2], "Type") = Str("Architect")
  /\ Attr(InputCompanies(1)[3], "Role") = Undefined
  /\ Prop(Team(1)[2], "role") = Str("Owner")

\* The company nodes of a project have CompanyIDs, all different, so that
\* an output entry names the node it was built from.
DistinctIds(nodes) ==
  /\ \A i \in 1..Len(nodes) : Truthy(Attr(nodes[i], "CompanyID"))
  /\ \A i, k \in 1..Len(nodes) :
       i # k => Attr(nodes[i], "CompanyID") # Attr(nodes[k], "CompanyID")

\* The position of the node with this CompanyID.
NodeOf(nodes, id) ==
  CHOOSE i \in 1..Len(nodes) : Attr(nodes[i], "CompanyID") = id

\* The entries name nodes at increasing positions: no node twice, and in
\* the order of the nodes.
InNodeOrder(nodes, entries) ==
  /\ \A i \in 1..Len(entries) :
       \E n \in 1..Len(nodes) :
         Attr(nodes[n], "CompanyID") = Prop(entries[i], "companyId")
  /\ \A i, k \in 1..Len(entries) :
       i < k => NodeOf(nodes, Prop(entries[i], "companyId"))
                  < NodeOf(nodes, Prop(entries[k], "companyId"))

\* C9: the two lists of a project are disjoint: a company node gives at
\* most one entry, in one list; a prospectiveBidders entry comes from a
\* node with a bidding role; a projectTeam entry has a team role; each
\* list keeps the order of the nodes.
C9_DisjointOrdered ==
  CleanRan =>
    \A j \in 1..Len(OutputProjects) :
      /\ Len(Bidders(j)) + Len(Team(j)) <= Len(InputCompanies(j))
      /\ \A i \in 1..Len(Team(j)) :
           Prop(Team(j)[i], "role") \in projectTeamRoles
      /\ DistinctIds(InputCompanies(j)) =>
           /\ InNodeOrder(InputCompanies(j), Bidders(j))
           /\ InNodeOrder(InputCompanies(j), Team(j))
           /\ \A b \in 1..Len(Bidders(j)) :
                /\ HasBiddingRole(InputCompanies(j)[
                     NodeOf(InputCompanies(j),
                            Prop(Bidders(j)[b], "companyId"))])
                /\ \A m \in 1..Len(Team(j)) :
                     Prop(Bidders(j)[b], "companyId")
                       # Prop(Team(j)[m], "companyId")

\* Three different nodes: a bidder that has a team role too, a team
\* member, and another bidder.
C9_Witness ==
  /\ CleanRan
  /\ Len(OutputProjects) = 1
  /\ Len(InputCompanies(1)) = 3
  /\ DistinctIds(InputCompanies(1))
  /\ Attr(InputCompanies(1)[1], "Role") = Str("Architect")
  /\ MapSeq(BidderRow, Bidders(1))
       = <<BidderOfNode(InputCompanies(1)[1]),
           BidderOfNode(InputCompanies(1)[3])>>
  /\ MapSeq(TeamRow, Team(1)) = <<TeamOfNode(InputCompanies(1)[2])>>

\* The contact entries of a company node.
InputContacts(node) ==
  ensureArray(OptProp(OptAt0(Prop(node, "Contacts")), "Contact"))
ContactHasNameAttr(contact) == Attr(contact, "Name") # Undefined
ContactHasName(contact) == Truthy(Attr(contact, "Name"))
ContactOfNode(contact) ==
  <<Attr(contact, "ContactID"), Attr(contact, "Name")>>
ContactRow(entry) == <<Prop(entry, "contactId"), Prop(entry, "name")>>

\* The contact lists of the output entries of project j, bidders first,
\* and what C10 says they are.
OutputContacts(j) ==
  [i \in 1..Len(Bidders(j)) |->
     MapSeq(ContactRow, Prop(Bidders(j)[i], "contacts").items)]
  \o [i \in 1..Len(Team(j)) |->
        MapSeq(ContactRow, Prop(Team(j)[i], "contacts").items)]
NamedContactsWithAttr(node) ==
  MapSeq(ContactOfNode, SelectSeq(InputContacts(node), ContactHasNameAttr))
NamedContacts(node) ==
  MapSeq(ContactOfNode, SelectSeq(InputContacts(node), ContactHasName))

\* C10 as stated: the contacts of a company are its contact entries that
\* have a name attribute, in input order.
C10_Original ==
  CleanRan =>
    \A j \in 1..Len(OutputProjects) :
      OutputContacts(j)
        = MapSeq(NamedContactsWithAttr,
                 SelectSeq(InputCompanies(j), HasBiddingRole))
          \o MapSeq(NamedContactsWithAttr,
                    SelectSeq(InputCompanies(j), IsTeamNode))

\* C10 as amended: the contacts of a company are its contact entries whose
\* name attribute is not empty, in input order: an entry without name or
\* with an empty name is left out, no other is lost, none changes place.
C10_Amended ==
  CleanRan =>
    \A j \in 1..Len(OutputProjects) :
      OutputContacts(j)
        = MapSeq(NamedContacts, SelectSeq(InputCompanies(j), HasBiddingRole))
          \o MapSeq(NamedContacts, SelectSeq(InputCompanies(j), IsTeamNode))

\* A company with a contact without name between two named ones, and a
\* company whose first contact has an empty name.
C10_Witness ==
  /\ CleanRan
  /\ Len(OutputProjects) = 1
  /\ Len(Bidders(1)) = 2
  /\ MapSeq(ContactOfNode, InputContacts(InputCompanies(1)[1]))
       = <<ContactOfNode(ContactAnn), ContactOfNode(ContactNoName),
           ContactOfNode(ContactBob)>>
  /\ MapSeq(ContactRow, Prop(Bidders(1)[1], "contacts").items)
       = <<ContactOfNode(ContactAnn), ContactOfNode(ContactBob)>>
  /\ MapSeq(ContactOfNode, InputContacts(InputCompanies(1)[2]))
       = <<ContactOfNode(ContactEmptyName), ContactOfNode(ContactAnn)>>
  /\ MapSeq(ContactRow, Prop(Bidders(1)[2], "contacts").items)
       = <<ContactOfNode(ContactAnn)>>


---------------------------------------------------------------------------
(* extractProjectId as a state machine: a URL is chosen, the function is   *)
(* called on it, and the two versions of matchLeadsWithProjects are called *)
(* on one project with that URL and one lead.                              *)

UrlAlphabet == {"/", "1", "2", "a"}

\* The strings of n characters of A.
RECURSIVE StringsOfLen(_, _)
StringsOfLen(A, n) ==
  IF n = 0 THEN {""}
  ELSE {s \o c : s \in StringsOfLen(A, n - 1), c \in A}

\* Every short string, some longer URLs with one and with several
\* occurrences of the pattern, and the absent values.
UrlSamples ==
  {Str(s) : s \in UNION {StringsOfLen(UrlAlphabet, n) : n \in 0..MaxUrlLen}}
  \cup {Str("/1/2/1"), Str("/12/2/1/"), Str("a/b/2/12/1"), Str("/123/456"),
        Str("x.co/111/1")}
  \cup {Undefined, Null}

\* Leads that differ in their URL field only; their stage is no stage of
\* a project, so that part_002 reports every lead it matches.
LeadUrlSamples ==
  { LeadNoUrl("L", Str("Something Else")),
    Lead("L", Null, Str("Something Else")),
    Lead("L", Str(""), Str("Something Else")),
    Lead("L", Str("a/1/1/"), Str("Something Else")),
    Lead("L", Str("/2/1"), Str("Something Else")),
    Lead("L", Str("y/12/1"), Str("Something Else")),
    Lead("L", Str("/a/1"), Str("Something Else")) }

IdentifierInit ==
  /\ urlArg \in UrlSamples
  /\ idResult = NotCalled
  /\ allRailwayProjects = <<Project("P", urlArg, Str("Pre-Bid"))>>
  /\ pipedriveLeads \in {<<l>> : l \in LeadUrlSamples}
  /\ matches = NotCalled
  /\ matchesIdx = NotCalled
  /\ ExtractIdle /\ StageIdle /\ FetchIdle /\ ProcessIdle

\* const projectId = extractProjectId(p.url)
CallExtractProjectId ==
  /\ idResult = NotCalled
  /\ idResult' = extractProjectId(urlArg)
  /\ UNCHANGED <<urlArg, reconcileVars, extractVars, stageVars, fetchVars,
                 processVars>>

IdentifierNext == CallExtractProjectId \/ CallMatch \/ CallMatchSetFind

SpecIdentifier == IdentifierInit /\ [][IdentifierNext]_vars

---------------------------------------------------------------------------
(* Properties of extractProjectId.                                         *)

\* s has a "/", digits, "/", digit occurrence whose first "/" is at i and
\* whose second "/" is at j.
OccursAt(s, i, j) ==
  /\ j >= i + 2
  /\ CharAt(s, i) = "/"
  /\ \A k \in (i + 1)..(j - 1) : CharAt(s, k) \in Digits
  /\ CharAt(s, j) = "/"
  /\ CharAt(s, j + 1) \in Digits

Occurrences(s) ==
  {p \in (1..Len(s)) \X (1..Len(s)) : OccursAt(s, p[1], p[2])}

\* The first digit group of the leftmost occurrence, absent when the value
\* is no string or has no occurrence.
ExpectedId(u) ==
  IF u.kind # "string" \/ Occurrences(u.val) = {} THEN Null
  ELSE LET first == CHOOSE p \in Occurrences(u.val) :
                      \A q \in Occurrences(u.val) : p[1] <= q[1]
       IN Str(SubSeq(u.val, first[1] + 1, first[2] - 1))

\* The one lead and the one project are a match.
IdsMatch ==
  LET leadId == ExpectedId(OptProp(pipedriveLeads[1], PIPEDRIVE_URL_FIELD))
  IN leadId # Null /\ leadId = ExpectedId(urlArg)

Reported(result) ==
  /\ result.kind = "array"
  /\ IF IdsMatch
       THEN /\ Len(result.items) = 1
            /\ Prop(result.items[1], "lead") = pipedriveLeads[1]
            /\ Prop(result.items[1], "matchedProject") = allRailwayProjects[1]
            /\ Prop(result.items[1], "projectId") = ExpectedId(urlArg)
       ELSE result.items = <<>>

\* C11: extractProjectId returns the first digit group of the leftmost
\* "/digits/digits" occurrence of a URL string and absent for an absent
\* input or a string without occurrence; applied to the project's URL and
\* to the lead's URL field, it makes the lead and the project a match
\* exactly when the two results are equal and not absent.
C11_ExtractId ==
  /\ idResult # NotCalled => idResult = ExpectedId(urlArg)
  /\ matches # NotCalled => Reported(matches)
  /\ matchesIdx # NotCalled => Reported(matchesIdx)

\* A URL with two occurrences gives the group of the leftmost one, and a
\* lead with another URL of the same identifier is matched by both
\* versions.
C11_Witness ==
  /\ urlArg = Str("/1/2/1")
  /\ idResult = Str("1")
  /\ OptProp(pipedriveLeads[1], PIPEDRIVE_URL_FIELD) = Str("a/1/1/")
  /\ matches.kind = "array" /\ Len(matches.items) = 1
  /\ matchesIdx.kind = "array" /\ Len(matchesIdx.items) = 1

---------------------------------------------------------------------------
(* String.prototype.toLowerCase and endsWith, and the upper-case           *)
(* counterpart used to vary the inputs.                                    *)

UpperChars == "ABCDEFGHIJKLMNOPQRSTUVWXYZ"
LowerChars == "abcdefghijklmnopqrstuvwxyz"

\* The character of `to` at the position c has in `from`, c itself when it
\* is not in `from`.
Translate(c, from, to) ==
  IF \E i \in 1..Len(from) : CharAt(from, i) = c
    THEN CharAt(to, CHOOSE i \in 1..Len(from) : CharAt(from, i) = c)
    ELSE c

RECURSIVE TranslateAll(_, _, _)
TranslateAll(s, from, to) ==
  IF s = "" THEN ""
  ELSE Translate(CharAt(s, 1), from, to)
       \o TranslateAll(SubSeq(s, 2, Len(s)), from, to)

toLowerCase(s) == TranslateAll(s, UpperChars, LowerChars)
toUpperCase(s) == TranslateAll(s, LowerChars, UpperChars)

endsWith(s, suffix) ==
  /\ Len(s) >= Len(suffix)
  /\ SubSeq(s, Len(s) - Len(suffix) + 1, Len(s)) = suffix

---------------------------------------------------------------------------
(* mapProjectStage as a state machine: a stage is chosen and the function  *)
(* is called on it once.                                                   *)

\* The labels the function compares its argument with.
StageLabels ==
  { "Pre-Bid", "Bid Date Set", "Biddate Set", "Schematic Design",
    "Design Development", "Open Bid", "SUBBIDS: ASAP", "Low Bid Apparent",
    "Low Bid / Apparent", "Low Bids Announced",
    "Post-Bid - General Contractor Award",
    "Architectural General Contracting", "General Contractor Award",
    "Post Bid", "General Contract", "Construction Underway",
    "Construction Manager", "Construction Documents", "Pre-Design" }

\* Every label as it is, in lower and in upper case, and with a space
\* before or after it; the codes, other strings, and values that are no
\* strings.
StageSamples ==
  {Str(s) : s \in StageLabels}
  \cup {Str(toLowerCase(s)) : s \in StageLabels}
  \cup {Str(toUpperCase(s)) : s \in StageLabels}
  \cup {Str(" " \o s) : s \in StageLabels}
  \cup {Str(s \o " ") : s \in StageLabels}
  \cup {Str("OB"), Str("LBA"), Str("AGC"), Str("PB"), Str("GC"), Str("CM"),
        Str("CD"), Str("Unknown Stage"), Str("Open  Bid"), Str("PreBid"),
        Str(""), Undefined, Null, Num(0), Num(7), Bool(FALSE)}

StageInit ==
  /\ stageArg \in StageSamples
  /\ stageResult = NotCalled
  /\ ReconcileIdle /\ ExtractIdle /\ IdentifierIdle /\ FetchIdle /\ ProcessIdle

\* const railwayMappedStage = mapProjectStage(matchedProject.stage)
CallMapProjectStage ==
  /\ stageResult = NotCalled
  /\ stageResult' = mapProjectStage(stageArg)
  /\ UNCHANGED <<stageArg, reconcileVars, extractVars, identifierVars,
                 fetchVars, processVars>>

StageNext == CallMapProjectStage

SpecStage == StageInit /\ [][StageNext]_vars

---------------------------------------------------------------------------
(* Properties of mapProjectStage.                                          *)

\* The alias table: 19 aliases, 8 canonical codes.
AliasTable ==
  ("Pre-Bid" :> "Bid Date Set") @@ ("Bid Date Set" :> "Bid Date Set")
  @@ ("Biddate Set" :> "Bid Date Set") @@ ("Schematic Design" :> "Bid Date Set")
  @@ ("Design Development" :> "Bid Date Set")
  @@ ("Open Bid" :> "OB") @@ ("SUBBIDS: ASAP" :> "OB")
  @@ ("Low Bid Apparent" :> "LBA") @@ ("Low Bid / Apparent" :> "LBA")
  @@ ("Low Bids Announced" :> "LBA")
  @@ ("Post-Bid - General Contractor Award" :> "AGC")
  @@ ("Architectural General Contracting" :> "AGC")
  @@ ("General Contractor Award" :> "AGC")
  @@ ("Post Bid" :> "PB")
  @@ ("General Contract" :> "GC") @@ ("Construction Underway" :> "GC")
  @@ ("Construction Manager" :> "CM")
  @@ ("Construction Documents" :> "CD") @@ ("Pre-Design" :> "CD")

CanonicalCodes == {"Bid Date Set", "OB", "LBA", "AGC", "PB", "GC", "CM", "CD"}

IsAlias(v) == v.kind = "string" /\ v.val \in DOMAIN AliasTable

\* C12: mapProjectStage returns the canonical code of each of the 19
\* aliases, and returns every other input unchanged: an absent input, a
\* value that is no string, and a string that differs from an alias in
\* letter case or in whitespace only.
C12_Canonicalize ==
  /\ Cardinality(DOMAIN AliasTable) = 19
  /\ {AliasTable[a] : a \in DOMAIN AliasTable} = CanonicalCodes
  /\ stageResult # NotCalled =>
       IF IsAlias(stageArg)
         THEN stageResult = Str(AliasTable[stageArg.val])
         ELSE stageResult = stageArg

\* An alias in another letter case came back unchanged.
C12_Witness ==
  /\ stageArg = Str("PRE-DESIGN")
  /\ stageResult = Str("PRE-DESIGN")

---------------------------------------------------------------------------
(* fetchAllPipedriveLeads.  The CRM is a function from the start of a      *)
(* request to what the request ends in: a rejection of fetch() or of       *)
(* response.json(), or the parsed body.                                    *)

Rejected == [kind |-> "reject"]
Json(body) == [kind |-> "json", body |-> body]

\* The leads of the collection, two to a page.
LeadA(s) ==
  CASE s = 0 -> Lead111BidDateSet
    [] s = 1 -> Lead("4", Str("y.co/a/111/7/"), Str("OB"))
    [] OTHER -> LeadNoStage(ToString(2 * s + 1), Str("x.co/333/1"))
LeadB(s) ==
  CASE s = 0 -> Lead111SomethingElse
    [] s = 1 -> LeadNoUrl("6", Str("OB"))
    [] OTHER -> Lead(ToString(2 * s + 2), Str("x.co/about/1"), Str("OB"))
PageData(s) == <<LeadA(s), LeadB(s)>>

ApiFailure == Json(Obj([success |-> Bool(FALSE), error |-> Str("unauthorized")]))
\* success without data, and with an empty list
NoData(s) == Json(Obj([success |-> Bool(TRUE), data |-> Null]))
EmptyData(s) ==
  Json(Obj([success |-> Bool(TRUE), data |-> Arr(<<>>),
            additional_data |->
              Obj([pagination |-> Obj([more_items_in_collection |-> Bool(FALSE)])])]))
\* the last page: the flag is false, or there is no additional_data
LastPage(s) ==
  Json(Obj([success |-> Bool(TRUE), data |-> Arr(PageData(s)),
            additional_data |->
              Obj([pagination |-> Obj([more_items_in_collection |-> Bool(FALSE)])])]))
BarePage(s) == Json(Obj([success |-> Bool(TRUE), data |-> Arr(PageData(s))]))
\* a page followed by more, with the start of the next request
MorePage(s, next) ==
  Json(Obj([success |-> Bool(TRUE), data |-> Arr(PageData(s)),
            additional_data |->
              Obj([pagination |->
                     Obj([more_items_in_collection |-> Bool(TRUE),
                          next_start |-> Num(next)])])]))

Starts == 0..MaxStart

\* What the request with start s can end in; a next_start that is not
\* greater than s is among them.
PageSamples(s) ==
  {Rejected, ApiFailure, NoData(s), EmptyData(s), LastPage(s), BarePage(s)}
  \cup {MorePage(s, next) : next \in Starts}

\* allLeads cannot outgrow this when every next_start is greater than the
\* start requested; the loop is cut there when a next_start goes back.
MaxFetched == 2 * (MaxStart + 1)

FetchPage_breakBeforePush ==
  /\ fetchPc = "loop"
  /\ Len(allLeads) <= MaxFetched
  /\ LET r == pages[start] IN
     IF r.kind = "reject" \/ Prop(r.body, "success").kind = "throw"
       THEN /\ fetchPc' = "thrown"
            /\ UNCHANGED <<start, allLeads>>
     ELSE LET data == r.body
              additional_data == Prop(data, "additional_data")
              pagination == Prop(additional_data, "pagination")
          IN
          IF \/ ~Truthy(Prop(data, "success"))
             \/ ~Truthy(Prop(data, "data"))
             \/ Len(Prop(data, "data").items) = 0
             \/ ~Truthy(additional_data)
             \/ ~Truthy(pagination)
             \/ ~Truthy(Prop(pagination, "more_items_in_collection"))
            THEN /\ fetchPc' = "returned"
                 /\ UNCHANGED <<start, allLeads>>
          ELSE /\ allLeads' = allLeads \o Prop(data, "data").items
               /\ start' = Prop(pagination, "next_start").num
               /\ fetchPc' = "loop"
  /\ UNCHANGED <<pages, reconcileVars, extractVars, identifierVars, stageVars,
                 processVars>>

\* One iteration of while (true), from the request to break, throw or the
\* assignment of start.
FetchPage ==
  /\ fetchPc = "loop"
  /\ Len(allLeads) <= MaxFetched
  /\ LET r == pages[start] IN
     IF r.kind = "reject" \/ Prop(r.body, "success").kind = "throw"
       THEN /\ fetchPc' = "thrown"
            /\ UNCHANGED <<start, allLeads>>
     ELSE LET data == r.body
              additional_data == Prop(data, "additional_data")
              pagination == Prop(additional_data, "pagination")
          IN
          IF \/ ~Truthy(Prop(data, "success"))
             \/ ~Truthy(Prop(data, "data"))
             \/ Len(Prop(data, "data").items) = 0
            THEN /\ fetchPc' = "returned"
                 /\ UNCHANGED <<start, allLeads>>
          ELSE /\ allLeads' = allLeads \o Prop(data, "data").items
               /\ IF \/ ~Truthy(additional_data)
                     \/ ~Truthy(pagination)
                     \/ ~Truthy(Prop(pagination, "more_items_in_collection"))
                    THEN fetchPc' = "returned" /\ start' = start
                    ELSE /\ start' = Prop(pagination, "next_start").num
                         /\ fetchPc' = "loop"
  /\ UNCHANGED <<pages, reconcileVars, extractVars, identifierVars, stageVars,
                 processVars>>

\* The fetch on its own: every function from starts to answers.
FetchInit ==
  /\ pages \in [Starts -> UNION {PageSamples(s) : s \in Starts}]
  /\ \A s \in Starts : pages[s] \in PageSamples(s)
  /\ start = 0
  /\ allLeads = <<>>
  /\ fetchPc = "loop"
  /\ ReconcileIdle /\ ExtractIdle /\ IdentifierIdle /\ StageIdle /\ ProcessIdle

FetchNext == FetchPage

\* An await whose promise is settled is resumed: the loop goes on as long
\* as it can.
SpecFetchLive == FetchInit /\ [][FetchNext]_vars /\ WF_vars(FetchNext)

---------------------------------------------------------------------------
(* Properties of fetchAllPipedriveLeads.                                   *)

\* A request that succeeded: it was answered, with the success flag set.
PageSucceeds(r) == r.kind = "json" /\ OptProp(r.body, "success") = Bool(TRUE)
\* A request that failed: a transport error or a failure response.
PageFails(r) == ~PageSucceeds(r)

PageLeads(r) ==
  IF OptProp(r.body, "data").kind = "array" THEN OptProp(r.body, "data").items
  ELSE <<>>
PagePagination(r) == OptProp(OptProp(r.body, "additional_data"), "pagination")
\* The more_items_in_collection flag is there and true.
PageHasMore(r) ==
  OptProp(PagePagination(r), "more_items_in_collection") = Bool(TRUE)
PageNextStart(r) == OptProp(PagePagination(r), "next_start").num
\* After this page another one is requested.
PageContinues(r) == PageSucceeds(r) /\ PageLeads(r) # <<>> /\ PageHasMore(r)

\* The starts requested from s on, in at most n + 1 requests.
RECURSIVE RequestedFrom(_, _)
RequestedFrom(s, n) ==
  {s} \cup (IF n > 0 /\ PageContinues(pages[s])
              THEN RequestedFrom(PageNextStart(pages[s]), n - 1)
              ELSE {})

\* Every request made succeeds, and every next_start is greater than the
\* start that was requested.
FetchAdvances ==
  \A s \in RequestedFrom(0, MaxStart) :
    /\ PageSucceeds(pages[s])
    /\ PageContinues(pages[s]) => PageNextStart(pages[s]) > s

\* The data of the pages from s on, up to and including the first page
\* that is not followed by more; nothing for a page without data.
RECURSIVE LeadsFrom(_, _)
LeadsFrom(s, n) ==
  PageLeads(pages[s])
  \o (IF n > 0 /\ PageContinues(pages[s])
        THEN LeadsFrom(PageNextStart(pages[s]), n - 1)
        ELSE <<>>)

NoLeadTwice(leads) ==
  \A i, j \in 1..Len(leads) : leads[i] = leads[j] => i = j

\* C17: when every request succeeds and every next_start is greater than
\* the start requested, fetchAllPipedriveLeads returns, and what it returns
\* is the data of the pages from start 0 up to and including the first one
\* whose more_items_in_collection flag is false or missing, in page order,
\* no lead twice; a page with empty data ends it and adds nothing.
C17_FetchesAll ==
  FetchAdvances =>
    /\ <>(fetchPc = "returned")
    /\ [](fetchPc = "returned" =>
            /\ allLeads = LeadsFrom(0, MaxStart)
            /\ NoLeadTwice(allLeads))

\* Two pages were fetched, the second one at the next_start of the first,
\* and the request after them was answered with empty data.
C17_Witness ==
  /\ FetchAdvances
  /\ fetchPc = "returned"
  /\ pages[0] = MorePage(0, 1)
  /\ pages[1] = MorePage(1, 2)
  /\ pages[2] = EmptyData(2)
  /\ allLeads = PageData(0) \o PageData(1)

---------------------------------------------------------------------------
(* The POST /process handler.  An archive is a sequence of entries; an     *)
(* entry has a path, a type, and what reading it ends in: an error of its  *)
(* stream, or its text.                                                    *)

Versions == {"index.js", "part_000", "part_001", "part_002"}
\* The versions that fetch the leads and reconcile.
CrmVersions == {"index.js", "part_002"}

Entry(path, type, content) == [path |-> path, type |-> type, content |-> content]
\* The entry's stream emits 'error', or it ends with the text read.
StreamFails == [kind |-> "streamError"]
Text(xml) == [kind |-> "text", xml |-> xml]

\* entry.type === 'File' && entry.path.toLowerCase().endsWith('.xml')
IsXmlFile(entry) ==
  entry.type = "File" /\ endsWith(toLowerCase(entry.path), ".xml")

\* Two projects, the first with the identifier 111 and the stage Pre-Bid.
DocTwoProjects == Document(Arr(<<ProjectNode(OneCompany), Obj(NoFields)>>))
\* One project with the identifier 111 and the stage Open Bid.
DocOpenBid ==
  Document(Element([ProjectID |-> Str("P2"), URL |-> Str("x.co/111/2/"),
                    Stage |-> Str("Open Bid")], NoFields))
\* No project container: cleanProjectData returns it as it is.
DocNoProjects == Obj([Catalog |-> Obj([Item |-> Arr(<<Str("x")>>)])])
\* The Companies container is a single child: cleanProjectData throws.
DocCompaniesSingle ==
  Document(Arr(<<Element(ProjectAttrs,
                   [Companies |-> Obj([Company |-> Arr(OneCompany)])])>>))

\* parser.parseStringPromise(xml): the document of a text, Raised when
\* the promise rejects because the text is not well-formed.
parseStringPromise(xml) ==
  CASE xml = "<Projects><Project/><Project/></Projects>" -> DocTwoProjects
    [] xml = "<Projects><Project/></Projects>" -> DocOpenBid
    [] xml = "<Catalog/>" -> DocNoProjects
    [] xml = "<Projects><Project><Companies/></Project></Projects>" ->
         DocCompaniesSingle
    [] OTHER -> Raised

EntrySamples ==
  { Entry("a.xml", "File", Text("<Projects><Project/><Project/></Projects>")),
    Entry("B.XML", "File", Text("<Projects><Project/></Projects>")),
    Entry("c.xml", "File", Text("<Projects>")),
    Entry("d.xml", "File", StreamFails),
    Entry("e.xml", "File",
          Text("<Projects><Project><Companies/></Project></Projects>")),
    Entry("f.xml", "File", Text("<Catalog/>")),
    Entry("notes.txt", "File", Text("<Projects><Project/></Projects>")),
    Entry("dir/", "Directory", Text("")) }

\* What the CRM answers during a call of the fetch: two pages; a transport error on
\* the first page and on the second; a failure response on the first page
\* and on the second; one page without additional_data.
PageScripts ==
  { [s \in Starts |-> IF s = 0 THEN MorePage(0, 1) ELSE LastPage(s)],
    [s \in Starts |-> Rejected],
    [s \in Starts |-> IF s = 0 THEN MorePage(0, 1) ELSE Rejected],
    [s \in Starts |-> ApiFailure],
    [s \in Starts |-> IF s = 0 THEN MorePage(0, 1) ELSE ApiFailure],
    [s \in Starts |-> BarePage(s)] }

ProcessInit ==
  /\ version \in Versions
  /\ reqFile \in BOOLEAN
  /\ archive \in SeqsUpTo(EntrySamples, MaxEntries)
  /\ corruptAt \in {-1, Len(archive)}
  /\ ~reqFile => archive = <<>> /\ corruptAt = -1
  /\ pages = <<>>
  /\ emitted = 0 /\ tasks = <<>> /\ xmlFiles = <<>>
  /\ pc = "start"
  /\ responses = <<>>
  /\ start = 0 /\ allLeads = <<>> /\ fetchPc = "idle"
  /\ ReconcileIdle /\ ExtractIdle /\ IdentifierIdle /\ StageIdle

\* res.status(status).json(body), res.json(body)
Sent(status, body) == Append(responses, [status |-> status, body |-> body])
ErrorBody(message) == Obj([error |-> Str(message)])

CheckFile_noReturn ==
  /\ pc = "start"
  /\ responses' = IF ~reqFile THEN Sent(400, ErrorBody("No file uploaded"))
                  ELSE responses
  /\ pc' = "streaming"
  /\ UNCHANGED <<version, reqFile, archive, corruptAt, emitted, tasks, xmlFiles,
                 reconcileVars, extractVars, identifierVars, stageVars, fetchVars>>

\* if (!req.file) return res.status(400).json(...); otherwise up to
\* await stream.pipe(unzipper.Parse()).on('entry', ...).promise()
CheckFile ==
  /\ pc = "start"
  /\ IF ~reqFile
       THEN /\ responses' = Sent(400, ErrorBody("No file uploaded"))
            /\ pc' = "done"
       ELSE /\ pc' = "streaming"
            /\ UNCHANGED responses
  /\ UNCHANGED <<version, reqFile, archive, corruptAt, emitted, tasks, xmlFiles,
                 reconcileVars, extractVars, identifierVars, stageVars, fetchVars>>

\* The 'entry' listener: a task for an .xml file, autodrain for the rest.
EmitEntry ==
  /\ pc = "streaming"
  /\ emitted < Len(archive)
  /\ corruptAt = -1 \/ emitted < corruptAt
  /\ emitted' = emitted + 1
  /\ tasks' = Append(tasks, IF IsXmlFile(archive[emitted + 1])
                              THEN "reading" ELSE "drained")
  /\ UNCHANGED <<version, reqFile, archive, corruptAt, xmlFiles, pc, responses,
                 reconcileVars, extractVars, identifierVars, stageVars, fetchVars>>

\* The entry's 'end' listener up to await parser.parseStringPromise(xml).
EntryEnd(i) ==
  /\ tasks[i] = "reading"
  /\ archive[i].content.kind # "streamError"
  /\ tasks' = [tasks EXCEPT ![i] = "parsing"]
  /\ UNCHANGED <<version, reqFile, archive, corruptAt, emitted, xmlFiles, pc,
                 responses, reconcileVars, extractVars, identifierVars,
                 stageVars, fetchVars>>

EntryError_noResolve(i) ==
  /\ tasks[i] = "reading"
  /\ archive[i].content.kind = "streamError"
  /\ tasks' = [tasks EXCEPT ![i] = "errored"]
  /\ UNCHANGED <<version, reqFile, archive, corruptAt, emitted, xmlFiles, pc,
                 responses, reconcileVars, extractVars, identifierVars,
                 stageVars, fetchVars>>

\* The entry's 'error' listener: resolve().
EntryError(i) ==
  /\ tasks[i] = "reading"
  /\ archive[i].content.kind = "streamError"
  /\ tasks' = [tasks EXCEPT ![i] = "settled"]
  /\ UNCHANGED <<version, reqFile, archive, corruptAt, emitted, xmlFiles, pc,
                 responses, reconcileVars, extractVars, identifierVars,
                 stageVars, fetchVars>>

\* The 'end' listener from the settling of parseStringPromise on:
\* cleanProjectData, xmlFiles.push and resolve(), or catch and resolve().
ParseSettled(i) ==
  /\ tasks[i] = "parsing"
  /\ LET document == parseStringPromise(archive[i].content.xml)
         data == IF document.kind = "throw" THEN Raised
                 ELSE cleanProjectData(document)
     IN xmlFiles' =
          IF data.kind = "throw" THEN xmlFiles
          ELSE Append(xmlFiles,
                      Literal([fileName |-> Str(archive[i].path), data |-> data]))
  /\ tasks' = [tasks EXCEPT ![i] = "settled"]
  /\ UNCHANGED <<version, reqFile, archive, corruptAt, emitted, pc, responses,
                 reconcileVars, extractVars, identifierVars, stageVars, fetchVars>>

\* The archive stream emits 'error': .promise() rejects, catch (error).
StreamError ==
  /\ pc = "streaming"
  /\ corruptAt # -1 /\ emitted = corruptAt
  /\ responses' = Sent(500, ErrorBody("error.message"))
  /\ pc' = "done"
  /\ UNCHANGED <<version, reqFile, archive, corruptAt, emitted, tasks, xmlFiles,
                 reconcileVars, extractVars, identifierVars, stageVars, fetchVars>>

\* The body of part_000 and part_001.
FilesBody ==
  Literal([success |-> Bool(TRUE), filesProcessed |-> Num(Len(xmlFiles)),
           data |-> Arr(xmlFiles)])

\* The archive stream finishes: .promise() resolves.  part_000 responds;
\* the other versions go on to await Promise.all(processingPromises).
StreamFinish ==
  /\ pc = "streaming"
  /\ corruptAt = -1 /\ emitted = Len(archive)
  /\ IF version = "part_000"
       THEN /\ responses' = Sent(200, FilesBody)
            /\ pc' = "done"
       ELSE /\ pc' = "awaitAll"
            /\ UNCHANGED responses
  /\ UNCHANGED <<version, reqFile, archive, corruptAt, emitted, tasks, xmlFiles,
                 reconcileVars, extractVars, identifierVars, stageVars, fetchVars>>

\* xmlFiles.forEach(file => { if (file.data.projects && Array.isArray(...))
\*   allRailwayProjects.push(...file.data.projects) })
RECURSIVE CollectProjects(_, _, _)
CollectProjects(files, i, acc) ==
  IF i > Len(files) THEN acc
  ELSE LET projects == Prop(Prop(files[i], "data"), "projects")
       IN CollectProjects(files, i + 1,
            IF Truthy(projects) /\ projects.kind = "array"
              THEN acc \o projects.items ELSE acc)

\* Promise.all(processingPromises) resolves.  part_001 responds; the CRM
\* versions collect the projects and call fetchAllPipedriveLeads, which
\* the CRM will answer in one of the ways of PageScripts.
AllSettled ==
  /\ pc = "awaitAll"
  /\ \A i \in 1..Len(tasks) : tasks[i] \in {"settled", "drained"}
  /\ IF version = "part_001"
       THEN /\ responses' = Sent(200, FilesBody)
            /\ pc' = "done"
            /\ UNCHANGED <<allRailwayProjects, fetchVars>>
       ELSE /\ allRailwayProjects' = CollectProjects(xmlFiles, 1, <<>>)
            /\ pages' \in PageScripts
            /\ start' = 0 /\ allLeads' = <<>> /\ fetchPc' = "loop"
            /\ pc' = "fetching"
            /\ UNCHANGED responses
  /\ UNCHANGED <<version, reqFile, archive, corruptAt, emitted, tasks, xmlFiles,
                 pipedriveLeads, matches, matchesIdx, extractVars,
                 identifierVars, stageVars>>

\* await fetchAllPipedriveLeads(...) resolves: matchLeadsWithProjects and
\* res.json(...), or catch (error) when the matching throws.
FetchReturned ==
  /\ pc = "fetching"
  /\ fetchPc = "returned"
  /\ pipedriveLeads' = allLeads
  /\ LET result == IF version = "index.js"
                     THEN matchLeadsWithProjectsSetFind(allLeads, allRailwayProjects)
                     ELSE matchLeadsWithProjects(allLeads, allRailwayProjects)
     IN /\ IF version = "index.js"
             THEN matchesIdx' = result /\ UNCHANGED matches
             ELSE matches' = result /\ UNCHANGED matchesIdx
        /\ responses' =
             IF result.kind = "throw" THEN Sent(500, ErrorBody("error.message"))
             ELSE Sent(200,
                    Literal([success |-> Bool(TRUE),
                             filesProcessed |-> Num(Len(xmlFiles)),
                             totalProjects |-> Num(Len(allRailwayProjects)),
                             totalLeads |-> Num(Len(allLeads)),
                             matchesFound |-> Num(Len(result.items)),
                             matches |-> result]))
  /\ pc' = "done"
  /\ UNCHANGED <<version, reqFile, archive, corruptAt, emitted, tasks, xmlFiles,
                 allRailwayProjects, extractVars, identifierVars, stageVars,
                 fetchVars>>

\* await fetchAllPipedriveLeads(...) rejects: catch (error).
FetchThrown ==
  /\ pc = "fetching"
  /\ fetchPc = "thrown"
  /\ responses' = Sent(500, ErrorBody("error.message"))
  /\ pc' = "done"
  /\ UNCHANGED <<version, reqFile, archive, corruptAt, emitted, tasks, xmlFiles,
                 reconcileVars, extractVars, identifierVars, stageVars, fetchVars>>

ProcessNext ==
  \/ CheckFile
  \/ EmitEntry
  \/ \E i \in 1..Len(tasks) : EntryEnd(i)
  \/ \E i \in 1..Len(tasks) : EntryError(i)
  \/ \E i \in 1..Len(tasks) : ParseSettled(i)
  \/ StreamError
  \/ StreamFinish
  \/ AllSettled
  \/ FetchPage
  \/ FetchReturned
  \/ FetchThrown

SpecProcess == ProcessInit /\ [][ProcessNext]_vars

---------------------------------------------------------------------------
(* Properties of the POST /process handler.                                *)

\* The request was answered with the success body.
Succeeded == responses # <<>> /\ responses[1].status = 200
SuccessBody == responses[1].body

\* The request is under way: it came in and has not been answered.
UnderWay == pc \in {"start", "streaming", "awaitAll", "fetching"}

\* The versions that collect a promise for each entry and await them all.
AwaitingVersions == {"index.js", "part_001", "part_002"}

\* The entries that are .xml files, and those of them that are read,
\* parsed and extracted without error.
XmlEntries == {i \in 1..Len(archive) : IsXmlFile(archive[i])}
ExtractsWell(entry) ==
  /\ entry.content.kind = "text"
  /\ parseStringPromise(entry.content.xml).kind # "throw"
  /\ cleanProjectData(parseStringPromise(entry.content.xml)).kind # "throw"
GoodEntries ==
  {i \in 1..Len(archive) : IsXmlFile(archive[i]) /\ ExtractsWell(archive[i])}

\* The number of files recorded under the path of an entry.
RecordedAs(path) ==
  Cardinality({k \in 1..Len(xmlFiles) : Prop(xmlFiles[k], "fileName") = Str(path)})
WithPath(entries, path) == Cardinality({i \in entries : archive[i].path = path})

\* A step of the request can be taken: the handler is not left waiting
\* for something that never comes.
CanGoOn ==
  \/ pc = "start"
  \/ /\ pc = "streaming"
     /\ \/ emitted < Len(archive)
        \/ corruptAt # -1 /\ emitted = corruptAt
        \/ corruptAt = -1 /\ emitted = Len(archive)
  \/ /\ pc = "awaitAll"
     /\ \/ \E i \in 1..Len(tasks) : tasks[i] \in {"reading", "parsing"}
        \/ \A i \in 1..Len(tasks) : tasks[i] \in {"settled", "drained"}
  \/ pc = "fetching" /\ fetchPc \in {"loop", "returned", "thrown"}

AllTasksFinished ==
  /\ emitted = Len(archive)
  /\ \A i \in 1..Len(tasks) : tasks[i] \in {"settled", "drained"}

\* C13: when a page request of the fetch fails, as a transport error or as
\* a response whose success flag is false, on the first page or on a later
\* one, the fetch raises, the request is answered with status 500, and the
\* matching is not run on the leads fetched so far.
C13_FetchFailureIsFatal ==
  (fetchPc \in {"returned", "thrown"} /\ PageFails(pages[start])) =>
    /\ fetchPc = "thrown"
    /\ matches = NotCalled /\ matchesIdx = NotCalled
    /\ pc = "done" => /\ Len(responses) = 1
                      /\ responses[1].status = 500

\* C14: an .xml entry whose stream errors, whose text does not parse or
\* whose extraction throws is skipped: no file is ever recorded for it or
\* for an entry that is no .xml file; it never keeps the request from going
\* on; when the success response is sent, every task has finished, the
\* files recorded are those of the entries read, parsed and extracted
\* without error, and filesProcessed is their number; and a request whose
\* archive stream does not fail and whose fetch returns is answered with
\* the success response.
C14_FailedEntriesSkipped ==
  /\ \A k \in 1..Len(xmlFiles) :
       \E i \in 1..emitted :
         /\ Prop(xmlFiles[k], "fileName") = Str(archive[i].path)
         /\ i \in GoodEntries
  /\ version \in AwaitingVersions =>
       /\ UnderWay => CanGoOn
       /\ Succeeded =>
            LET good == GoodEntries IN
            /\ AllTasksFinished
            /\ \A i \in 1..Len(archive) :
                 RecordedAs(archive[i].path) = WithPath(good, archive[i].path)
            /\ Prop(SuccessBody, "filesProcessed") = Num(Cardinality(good))
       /\ (pc = "done" /\ reqFile /\ corruptAt = -1
             /\ (version \in CrmVersions => fetchPc = "returned")) => Succeeded

\* The first entry's stream errored and the second entry was recorded:
\* the request of src/index.js ended with the success response and one
\* file.
C14_Witness ==
  /\ version = "index.js"
  /\ Len(archive) = 2
  /\ archive[1].path = "d.xml" /\ archive[2].path = "a.xml"
  /\ Succeeded
  /\ Prop(SuccessBody, "filesProcessed") = Num(1)

\* The projects of the files recorded, counted file by file.
RECURSIVE ProjectCount(_)
ProjectCount(files) ==
  IF files = <<>> THEN 0
  ELSE LET projects == OptProp(Prop(Head(files), "data"), "projects")
       IN (IF projects.kind = "array" THEN Len(projects.items) ELSE 0)
          + ProjectCount(Tail(files))

\* C15: a request gets exactly one response.  Without a file it is 400
\* with an error, and no entry is read and no fetch made.  With a file it
\* is 500 with an error when the archive stream, the fetch or the matching
\* raised, and otherwise the success body; in the success body of the
\* versions that reconcile, matchesFound is the length of matches,
\* totalLeads the number of leads fetched and totalProjects the number of
\* projects of the recorded files.
C15_OneResponse ==
  /\ Len(responses) <= 1
  /\ pc = "done" <=> Len(responses) = 1
  /\ UnderWay => CanGoOn
  /\ ~reqFile =>
       /\ emitted = 0 /\ tasks = <<>> /\ xmlFiles = <<>> /\ fetchPc = "idle"
       /\ pc = "done" => responses = <<[status |-> 400,
                                        body |-> ErrorBody("No file uploaded")]>>
  /\ (reqFile /\ pc = "done") =>
       LET raised == \/ corruptAt # -1
                     \/ fetchPc = "thrown"
                     \/ matches.kind = "throw" \/ matchesIdx.kind = "throw"
       IN IF raised
            THEN /\ responses[1].status = 500
                 /\ DOMAIN responses[1].body.fields = {"error"}
            ELSE Succeeded
  /\ (Succeeded /\ version \in CrmVersions) =>
       /\ Prop(SuccessBody, "success") = Bool(TRUE)
       /\ Prop(SuccessBody, "matchesFound")
            = Num(Len(Prop(SuccessBody, "matches").items))
       /\ Prop(SuccessBody, "totalLeads") = Num(Len(allLeads))
       /\ Prop(SuccessBody, "totalProjects") = Num(ProjectCount(xmlFiles))
       /\ Prop(SuccessBody, "filesProcessed") = Num(Len(xmlFiles))

\* A file with two projects and a file without project container: two
\* files, two projects, four leads.
C15_Witness ==
  /\ version = "part_002"
  /\ Succeeded
  /\ Prop(SuccessBody, "filesProcessed") = Num(2)
  /\ Prop(SuccessBody, "totalProjects") = Num(2)
  /\ Prop(SuccessBody, "totalLeads") = Num(4)
  /\ Prop(SuccessBody, "matchesFound") = Num(2)

\* C16: in every version of the handler the success response is sent only
\* after every entry's task has finished, so that every entry read, parsed
\* and extracted without error is counted in filesProcessed.
C16_RespondsAfterAllTasks ==
  Succeeded =>
    /\ AllTasksFinished
    /\ Prop(SuccessBody, "filesProcessed") = Num(Cardinality(GoodEntries))

\* The files of the good entries in the order of the archive, and their
\* projects.
RECURSIVE FilesInArchiveOrder(_)
FilesInArchiveOrder(i) ==
  IF i > Len(archive) THEN <<>>
  ELSE (IF i \in GoodEntries
          THEN <<Literal([fileName |-> Str(archive[i].path),
                          data |-> cleanProjectData(
                                     parseStringPromise(archive[i].content.xml))])>>
          ELSE <<>>)
       \o FilesInArchiveOrder(i + 1)
ProjectsInArchiveOrder == CollectProjects(FilesInArchiveOrder(1), 1, <<>>)

\* C18: the matches of the response are those of the same leads and the
\* same files completed in the order of the archive, whatever the order
\* in which the entries' tasks completed.
C18_OrderIndependent ==
  (Succeeded /\ version \in CrmVersions) =>
    Range(Prop(SuccessBody, "matches").items)
      = Range((IF version = "index.js"
                 THEN matchLeadsWithProjectsSetFind(allLeads, ProjectsInArchiveOrder)
                 ELSE matchLeadsWithProjects(allLeads, ProjectsInArchiveOrder)).items)
===========================================================================
